---- MODULE Spec2Model ----
(***************************************************************************)
(* The two example programs of the repository as one state machine:        *)
(*   view_tigr           main (display loop) + render_thread (acquisition) *)
(*   lidar_view_example  main (acquisition loop) + func (visualizer)       *)
(* A behaviour is a run of one of the two programs (prog, chosen in Init). *)
(* The sensor client, the scan batcher, tigr and the visualizer are        *)
(* external libraries: their calls are steps whose results are inputs.     *)
(***************************************************************************)
EXTENDS Integers, Sequences, FiniteSets, TLC

VARIABLES
    prog,       \* which example runs
    argc,       \* its argument count
    proc,       \* "running", or how the process ended
    usage,      \* usage text printed on the diagnostic stream
    fatal,      \* message FATAL printed ("" = none)
    connected,  \* init_client was called (attempted connection)
    pcMain,     \* main thread's position
    pcThr,      \* created thread's position (render_thread / func)
    lock,       \* app.lock: "none", "main" or "thr"
    closed,     \* the window-close flag tigrClosed reads
    mouse,      \* app.mouse
    bmp,        \* app.bmp: pixels, << >> while not allocated
    surface,    \* what the display surface (screen) holds
    st,         \* client_state returned by the last poll
    polls,      \* polls returned so far: "none", "one" or "more"
    it,         \* what the current acquisition iteration has done
    sensorFrame,\* the frame the sensor is sending
    pkt,        \* packet_buf: the packet last read
    scan,       \* the LidarScan's RANGE field
    nextCol,    \* batcher: columns of the current frame already batched
    k,          \* scan_to_bmp: pixels written so far in the second loop
    probe,      \* the mouse values render_thread has read in this write
    cloud,      \* lidar_view_example: the cloud's points, << >> while unset
    viz,        \* lidar_view_example: thread_args.viz, running, visible
    hist        \* history of app.bmp: the bitmap the last completed frame
                \* write left, the bitmap the last blit copied, and whether
                \* a frame write completed since that blit

vars == <<prog, argc, proc, usage, fatal, connected, pcMain, pcThr, lock,
          closed, mouse, bmp, surface, st, polls, it, sensorFrame, pkt,
          scan, nextCol, k,
          probe, cloud, viz, hist>>

-----------------------------------------------------------------------------
(* Bounds of the model *)

\* columns_per_frame and pixels_per_column the sensor reports
W == 2
H == 2
\* argument counts tried: 1 .. MaxArgc
MaxArgc == 4

N == W * H
Pix == 0 .. (N - 1)

-----------------------------------------------------------------------------
(* 32-bit arithmetic.  A uint32_t channel value is its two 16-bit halves   *)
(* <<hi, lo>>; an int32_t is the integer it denotes.  Arithmetic wraps     *)
(* modulo 2^32, as the compiled sub/imul do on a two's complement target.  *)

Limb == 256 * 256
HalfLimb == Limb \div 2
INT32_MAX == 2147483647
INT32_MIN == -2147483647 - 1

\* the signed 16-bit value with the same low 16 bits as h
Wrap16(h) == ((h + HalfLimb) % Limb) - HalfLimb

\* int32_t value = img(y, x): the uint32_t's bits read as a signed integer
ToInt32(u) == Wrap16(u[1]) * Limb + u[2]

\* a - b in int32_t
Sub32(a, b) ==
    LET lo == (a % Limb) - (b % Limb)
        borrow == IF lo < 0 THEN 1 ELSE 0
        hi == (a \div Limb) - (b \div Limb) - borrow
    IN  Wrap16(hi) * Limb + (lo % Limb)

\* a * 255 in int32_t
Mul255(a) ==
    LET lo == (a % Limb) * 255
        hi == (a \div Limb) * 255 + (lo \div Limb)
    IN  Wrap16(hi) * Limb + (lo % Limb)

\* a / b in int32_t has no defined result
DivUndefined(a, b) == b = 0 \/ (a = INT32_MIN /\ b = -1)

\* a / b in int32_t (truncation toward zero), where defined
Div32(a, b) ==
    IF b = INT32_MIN THEN (IF a = INT32_MIN THEN 1 ELSE 0)
    ELSE LET q == a \div b
             exact == (a % (IF b > 0 THEN b ELSE -b)) = 0
         IN  IF (~exact) /\ ((a < 0) # (b < 0)) THEN q + 1 ELSE q

\* storing an int into an 8-bit channel (unsigned char)
ToByte(v) == v % 256

\* unsigned order of two channel values
LtU(u, v) == u[1] < v[1] \/ (u[1] = v[1] /\ u[2] < v[2])

-----------------------------------------------------------------------------
(* Pixels and the two frame-writing functions *)

Gray(v) == [r |-> v, g |-> v, b |-> v, a |-> 255]
Red == [r |-> 255, g |-> 0, b |-> 0, a |-> 255]
Blank == [r |-> 0, g |-> 0, b |-> 0, a |-> 0]

\* tigrBitmap(app.w, app.h): a zero-filled bitmap
InitBmp == [i \in Pix |-> Blank]
\* LidarScan{w, h, profile}: zero-filled fields
InitScan == [i \in Pix |-> <<0, 0>>]

\* int i = y * bmp->w + x
Index(x, y) == y * W + x

\* scan_to_bmp, first loop: min and max over the scan, from INT32_MAX / INT32_MIN
ScanMin(s) ==
    LET vals == {ToInt32(s[i]) : i \in Pix} \cup {INT32_MAX}
    IN  CHOOSE m \in vals : \A v \in vals : m <= v
ScanMax(s) ==
    LET vals == {ToInt32(s[i]) : i \in Pix} \cup {INT32_MIN}
    IN  CHOOSE m \in vals : \A v \in vals : m >= v

\* scan_to_bmp, second loop: the j-th pixel visited (x outer, y inner)
LoopX(j) == j \div H
LoopY(j) == j % H
LoopIndex(j) == Index(LoopX(j), LoopY(j))

\* value -= min; value *= 255  (the dividend of the normalization)
Scaled(s, i) == Mul255(Sub32(ToInt32(s[i]), ScanMin(s)))
\* max - min  (the divisor)
Range(s) == Sub32(ScanMax(s), ScanMin(s))
\* the division of pixel i has no defined result
PixelUndefined(s, i) == DivUndefined(Scaled(s, i), Range(s))
\* value /= (max - min); bmp->pix[i].r = value
Normalized(s, i) == ToByte(Div32(Scaled(s, i), Range(s)))

\* print_range's two guards
InBounds(x, y) == ~((x < 0) \/ (x >= W)) /\ ~((y < 0) \/ (y >= H))


-----------------------------------------------------------------------------
(* The sensor and the batcher (external): what the calls hand back *)

\* client_state bits the loops test
Flags == {"CLIENT_ERROR", "LIDAR_DATA", "IMU_DATA"}

\* frames the sensor produces: values rising uniformly from 0 to 1000, and
\* a flat frame (max = min)
FrameIds == {"ramp", "flat"}
Frame(f) ==
    CASE f = "ramp" -> [i \in Pix |-> <<0, (1000 * i) \div (N - 1)>>]
      [] f = "flat" -> [i \in Pix |-> <<0, 500>>]

\* a lidar packet carries one column m of frame f; packet_buf starts zeroed
NoPacket == [f |-> "none", m |-> 0]
ImuPacket == [f |-> "imu", m |-> 0]
\* the frames the next lidar packet can belong to: the frame in progress,
\* or any frame when a new one starts
NextFrames == IF nextCol = 0 THEN FrameIds ELSE {sensorFrame}

\* batch_to_scan(packet_buf, scan): the packet's column written into the scan
Batched(s, p) ==
    [i \in Pix |-> IF i % W = p.m THEN Frame(p.f)[i] ELSE s[i]]
\* ... returning true when the scan is complete (its last column arrived)
BatchDone(p) == p.m = W - 1

\* what one loop iteration has done so far
FreshIt == [read |-> "no", batched |-> FALSE, done |-> FALSE,
            complete |-> FALSE, locked |-> FALSE, wrote |-> FALSE,
            cloud |-> FALSE, imu |-> 0]

\* mouse states tigr_mouse_get can report (cursor inside the window, on
\* each edge just outside it, button up or down)
MouseSamples ==
    {[btn |-> 0, x |-> 0, y |-> 0]}
    \cup {[btn |-> 1, x |-> q[1], y |-> q[2]] :
            q \in {<<W - 1, H - 1>>, <<W, 0>>, <<0, H>>, <<-1, 0>>,
                   <<0, -1>>}}
NoProbe == [btn |-> 0, x |-> 0, y |-> 0, read |-> FALSE]

\* the history of the frame buffer, not recorded / recorded, before the
\* buffer exists
NoHist == [on |-> FALSE, write |-> << >>, blit |-> << >>, fresh |-> FALSE]
NewHist == [NoHist EXCEPT !.on = TRUE]
\* the history after an event, where it is recorded
Record(h) == IF hist.on THEN h ELSE hist

-----------------------------------------------------------------------------
(* Initial state: the process has just been started *)

Init ==
    /\ prog \in {"view_tigr", "lidar_view_example"}
    /\ argc \in 1 .. MaxArgc
    /\ proc = "running"
    /\ usage = FALSE
    /\ fatal = ""
    /\ connected = FALSE
    /\ pcMain = "start"
    /\ pcThr = "none"
    /\ lock = "none"
    /\ closed = FALSE
    /\ mouse = [btn |-> 0, x |-> 0, y |-> 0]
    /\ bmp = << >>
    /\ surface = << >>
    /\ st = {}
    /\ polls = "none"
    /\ it = FreshIt
    /\ sensorFrame = "none"
    /\ pkt = NoPacket
    /\ scan = InitScan
    /\ nextCol = 0
    /\ k = 0
    /\ probe = NoProbe
    /\ cloud = << >>
    /\ viz = [ptr |-> "unset", running |-> FALSE, visible |-> FALSE]
    /\ hist = NoHist

cfgVars == <<prog, argc>>
outVars == <<usage, fatal, connected>>
dispVars == <<closed, mouse, surface>>
acqVars == <<st, polls, it, sensorFrame, pkt, scan, nextCol>>
wrVars == <<k, probe>>
lveVars == <<cloud, viz>>

\* variables an exiting step sets itself
keptVars == <<usage, connected, closed, st, polls, it>>

\* The process ends with the given status: its threads are gone and its
\* memory is released.  The frame buffer and the lock keep the values they
\* had at that moment; nothing else of the memory is tracked any further.
Teardown(status) ==
    /\ proc' = status
    /\ pcMain' = "exited"
    /\ pcThr' = "exited"
    /\ UNCHANGED <<lock, bmp>>
    /\ mouse' = [btn |-> 0, x |-> 0, y |-> 0]
    /\ surface' = << >>
    /\ sensorFrame' = "none"
    /\ pkt' = NoPacket
    /\ scan' = InitScan
    /\ nextCol' = 0
    /\ k' = 0
    /\ probe' = NoProbe
    /\ cloud' = << >>
    /\ viz' = [ptr |-> "unset", running |-> FALSE, visible |-> FALSE]
    /\ hist' = [NoHist EXCEPT !.on = hist.on]
    /\ UNCHANGED cfgVars

\* FATAL(msg): print msg and std::exit(EXIT_FAILURE)
FATAL(msg) == fatal' = msg /\ Teardown("exit_failure")


-----------------------------------------------------------------------------
(* view_tigr: main *)

\* (mutant) a lock that does not wait for its holder
AcquireNoWait(t) == lock' = t

\* pthread_mutex_lock(&app.lock) by thread t
Acquire(t) == lock = "none" /\ lock' = t
\* pthread_mutex_unlock(&app.lock)
Release == lock' = "none"

Background == [r |-> 128, g |-> 144, b |-> 160, a |-> 255]

\* app_t app = {argv[1]}: with no argument argv[1] is a null pointer and
\* constructing the std::string from it is undefined; it ends the process
\* by a signal (abort from the library's null check, or a fault in strlen)
main_app ==
    /\ prog = "view_tigr" /\ proc = "running" /\ pcMain = "start"
    /\ IF argc < 2
       THEN Teardown("signal") /\ UNCHANGED <<keptVars, fatal>>
       ELSE /\ pcMain' = "init"
            /\ UNCHANGED <<cfgVars, hist, outVars, dispVars, acqVars, wrVars,
                           lveVars, proc, pcThr, lock, bmp>>

\* init(&app): connect, or FATAL("Failed to connect")
init ==
    /\ prog = "view_tigr" /\ proc = "running" /\ pcMain = "init"
    /\ connected' = TRUE
    /\ \E handle \in BOOLEAN :
          IF ~handle
          THEN /\ FATAL("Failed to connect")
               /\ UNCHANGED <<usage, closed, st, polls, it>>
          ELSE /\ pcMain' = "window"
               /\ UNCHANGED <<cfgVars, hist, usage, fatal, dispVars, acqVars,
                              wrVars, lveVars, proc, pcThr, lock, bmp>>

\* screen = tigrWindow(...); app.bmp = tigrBitmap(app.w, app.h)
main_tigrBitmap ==
    /\ prog = "view_tigr" /\ proc = "running" /\ pcMain = "window"
    /\ surface' = InitBmp
    /\ bmp' = InitBmp
    /\ pcMain' = "create"
    /\ hist' = Record([hist EXCEPT !.write = InitBmp])
    /\ UNCHANGED <<cfgVars, outVars, closed, mouse, acqVars, wrVars, lveVars,
                   proc, pcThr, lock>>

\* (mutant) the thread is started although the buffer is not allocated yet
main_pthread_create_early ==
    /\ prog = "view_tigr" /\ proc = "running"
    /\ pcMain \in {"window", "create"}
    /\ pcThr = "none"
    /\ pcThr' = "a_init"
    /\ pcMain' = IF pcMain = "create" THEN "m_closed" ELSE pcMain
    /\ UNCHANGED <<cfgVars, hist, outVars, dispVars, acqVars, wrVars, lveVars,
                   proc, lock, bmp>>

\* pthread_create(&ptid, NULL, &render_thread, &app)
main_pthread_create ==
    /\ prog = "view_tigr" /\ proc = "running" /\ pcMain = "create"
    /\ pcThr' = "a_init"
    /\ pcMain' = "m_closed"
    /\ UNCHANGED <<cfgVars, hist, outVars, dispVars, acqVars, wrVars, lveVars,
                   proc, lock, bmp>>

\* (mutant) the loop head does not look at the close flag
main_tigrClosed_ignore ==
    /\ prog = "view_tigr" /\ proc = "running" /\ pcMain = "m_closed"
    /\ pcMain' = "m_readchar"
    /\ UNCHANGED <<cfgVars, hist, outVars, dispVars, acqVars, wrVars, lveVars,
                   proc, pcThr, lock, bmp>>

\* while (!tigrClosed(screen))
main_tigrClosed ==
    /\ prog = "view_tigr" /\ proc = "running" /\ pcMain = "m_closed"
    /\ pcMain' = IF closed THEN "m_free" ELSE "m_readchar"
    /\ UNCHANGED <<cfgVars, hist, outVars, dispVars, acqVars, wrVars, lveVars,
                   proc, pcThr, lock, bmp>>

\* int c = tigrReadChar(screen); switch (c) { case 'q': default: break; }
main_tigrReadChar ==
    /\ prog = "view_tigr" /\ proc = "running" /\ pcMain = "m_readchar"
    /\ pcMain' = "m_mouse"
    /\ UNCHANGED <<cfgVars, hist, outVars, dispVars, acqVars, wrVars, lveVars,
                   proc, pcThr, lock, bmp>>

\* tigr_mouse_get(screen, &app.mouse)
main_tigr_mouse_get ==
    /\ prog = "view_tigr" /\ proc = "running" /\ pcMain = "m_mouse"
    /\ mouse' \in MouseSamples
    /\ pcMain' = "m_clear"
    /\ UNCHANGED <<cfgVars, hist, outVars, closed, surface, acqVars, wrVars,
                   lveVars, proc, pcThr, lock, bmp>>

\* tigrClear(screen, tigrRGB(0x80, 0x90, 0xa0))
main_tigrClear ==
    /\ prog = "view_tigr" /\ proc = "running" /\ pcMain = "m_clear"
    /\ surface' = [i \in Pix |-> Background]
    /\ pcMain' = "m_lock"
    /\ UNCHANGED <<cfgVars, hist, outVars, closed, mouse, acqVars, wrVars, lveVars,
                   proc, pcThr, lock, bmp>>

\* pthread_mutex_lock(&app.lock)
main_lock ==
    /\ prog = "view_tigr" /\ proc = "running" /\ pcMain = "m_lock"
    /\ Acquire("main")
    /\ pcMain' = "m_blit"
    /\ UNCHANGED <<cfgVars, hist, outVars, dispVars, acqVars, wrVars, lveVars,
                   proc, pcThr, bmp>>

\* (mutant) the blit copies the first row only
main_tigrBlit_row ==
    /\ prog = "view_tigr" /\ proc = "running" /\ pcMain = "m_blit"
    /\ surface' = [i \in Pix |-> IF i < W THEN bmp[i] ELSE surface[i]]
    /\ pcMain' = "m_unlock"
    /\ hist' = Record([hist EXCEPT !.blit = surface', !.fresh = FALSE])
    /\ UNCHANGED <<cfgVars, outVars, closed, mouse, acqVars, wrVars, lveVars,
                   proc, pcThr, lock, bmp>>

\* tigrBlit(screen, app.bmp, 0, 0, 0, 0, app.w, app.h)
main_tigrBlit ==
    /\ prog = "view_tigr" /\ proc = "running" /\ pcMain = "m_blit"
    /\ surface' = bmp
    /\ pcMain' = "m_unlock"
    /\ hist' = Record([hist EXCEPT !.blit = bmp, !.fresh = FALSE])
    /\ UNCHANGED <<cfgVars, outVars, closed, mouse, acqVars, wrVars, lveVars,
                   proc, pcThr, lock, bmp>>

\* pthread_mutex_unlock(&app.lock)
main_unlock ==
    /\ prog = "view_tigr" /\ proc = "running" /\ pcMain = "m_unlock"
    /\ Release
    /\ pcMain' = "m_update"
    /\ UNCHANGED <<cfgVars, hist, outVars, dispVars, acqVars, wrVars, lveVars,
                   proc, pcThr, bmp>>

\* tigrUpdate(screen): presents the surface and handles the window's
\* events, among them the close request that sets the closed flag
main_tigrUpdate ==
    /\ prog = "view_tigr" /\ proc = "running" /\ pcMain = "m_update"
    /\ closed' \in {closed, TRUE}
    /\ pcMain' = "m_closed"
    /\ UNCHANGED <<cfgVars, hist, outVars, mouse, surface, acqVars, wrVars,
                   lveVars, proc, pcThr, lock, bmp>>

\* tigrFree(screen); return EXIT_SUCCESS
main_return ==
    /\ prog = "view_tigr" /\ proc = "running" /\ pcMain = "m_free"
    /\ Teardown("exit_success")
    /\ UNCHANGED <<keptVars, fatal>>


-----------------------------------------------------------------------------
(* view_tigr: render_thread *)

\* (mutant) the x guard lets the column just past the right edge through
print_range_loose(b, x, y) ==
    IF ~((x < 0) \/ (x > W)) /\ ~((y < 0) \/ (y >= H)) /\ Index(x, y) \in Pix
    THEN [b EXCEPT ![Index(x, y)] = Red]
    ELSE b

\* print_range(scan, RANGE, bmp, x, y): the highlight pixel, inside bounds
print_range(b, x, y) ==
    IF InBounds(x, y) THEN [b EXCEPT ![Index(x, y)] = Red] ELSE b

\* the thread's set-up: info, batcher, packet buffer, scan, lut
render_init ==
    /\ prog = "view_tigr" /\ proc = "running" /\ pcThr = "a_init"
    /\ pcThr' = "a_poll"
    /\ UNCHANGED <<cfgVars, hist, outVars, dispVars, acqVars, wrVars, lveVars,
                   proc, pcMain, lock, bmp>>

\* (mutant) the error bit is looked at only when no lidar data is reported
render_poll_data_first ==
    /\ prog = "view_tigr" /\ proc = "running" /\ pcThr = "a_poll"
    /\ st' \in SUBSET Flags
    /\ polls' = IF polls = "none" THEN "one" ELSE "more"
    /\ IF "CLIENT_ERROR" \in st' /\ "LIDAR_DATA" \notin st'
       THEN /\ FATAL("Sensor client returned error state!")
            /\ UNCHANGED <<usage, connected, closed, it>>
       ELSE /\ pcThr' = IF "LIDAR_DATA" \in st' THEN "a_read" ELSE "a_imu"
            /\ UNCHANGED <<cfgVars, hist, outVars, dispVars, it, sensorFrame, pkt,
                           scan, nextCol, wrVars, lveVars, proc, pcMain,
                           lock, bmp>>

\* st = poll_client(*app->handle); if (st & CLIENT_ERROR) FATAL(...)
render_poll ==
    /\ prog = "view_tigr" /\ proc = "running" /\ pcThr = "a_poll"
    /\ st' \in SUBSET Flags
    /\ polls' = IF polls = "none" THEN "one" ELSE "more"
    /\ IF "CLIENT_ERROR" \in st'
       THEN /\ FATAL("Sensor client returned error state!")
            /\ UNCHANGED <<usage, connected, closed, it>>
       ELSE /\ pcThr' = IF "LIDAR_DATA" \in st' THEN "a_read" ELSE "a_imu"
            /\ UNCHANGED <<cfgVars, hist, outVars, dispVars, it, sensorFrame, pkt,
                           scan, nextCol, wrVars, lveVars, proc, pcMain,
                           lock, bmp>>

\* (mutant) a failed read is tried again
render_read_retry ==
    /\ prog = "view_tigr" /\ proc = "running" /\ pcThr = "a_read"
    /\ \E ok \in BOOLEAN :
          IF ~ok
          THEN /\ it' = [it EXCEPT !.read = "failed"]
               /\ UNCHANGED <<cfgVars, hist, outVars, dispVars, st, polls,
                              sensorFrame, pkt, scan, nextCol, wrVars,
                              lveVars, proc, pcMain, pcThr, lock, bmp>>
          ELSE /\ sensorFrame' \in NextFrames
               /\ pkt' = [f |-> sensorFrame', m |-> nextCol]
               /\ it' = [it EXCEPT !.read = "ok"]
               /\ pcThr' = "a_batch"
               /\ UNCHANGED <<cfgVars, hist, outVars, dispVars, st, polls, scan,
                              nextCol, wrVars, lveVars, proc, pcMain, lock,
                              bmp>>

\* if (!read_lidar_packet(...)) FATAL(...)
render_read ==
    /\ prog = "view_tigr" /\ proc = "running" /\ pcThr = "a_read"
    /\ \E ok \in BOOLEAN :
          IF ~ok
          THEN /\ FATAL("Failed to read a packet of the expected size!")
               /\ it' = [it EXCEPT !.read = "failed"]
               /\ UNCHANGED <<usage, connected, closed, st, polls>>
          ELSE /\ sensorFrame' \in NextFrames
               /\ pkt' = [f |-> sensorFrame', m |-> nextCol]
               /\ it' = [it EXCEPT !.read = "ok"]
               /\ pcThr' = "a_batch"
               /\ UNCHANGED <<cfgVars, hist, outVars, dispVars, st, polls, scan,
                              nextCol, wrVars, lveVars, proc, pcMain, lock,
                              bmp>>

\* (mutant) the frame is written after every packet, whatever the batcher
\* returned
render_batch_eager ==
    /\ prog = "view_tigr" /\ proc = "running" /\ pcThr = "a_batch"
    /\ scan' = Batched(scan, pkt)
    /\ nextCol' = IF BatchDone(pkt) THEN 0 ELSE pkt.m + 1
    /\ it' = [it EXCEPT !.batched = TRUE, !.done = TRUE]
    /\ pcThr' = "a_complete"
    /\ UNCHANGED <<cfgVars, hist, outVars, dispVars, st, polls, sensorFrame, pkt,
                   wrVars, lveVars, proc, pcMain, lock, bmp>>

\* if (batch_to_scan(packet_buf.get(), scan))
render_batch ==
    /\ prog = "view_tigr" /\ proc = "running" /\ pcThr = "a_batch"
    /\ scan' = Batched(scan, pkt)
    /\ nextCol' = IF BatchDone(pkt) THEN 0 ELSE pkt.m + 1
    /\ it' = [it EXCEPT !.batched = TRUE, !.done = BatchDone(pkt)]
    /\ pcThr' = IF BatchDone(pkt) THEN "a_complete" ELSE "a_imu"
    /\ UNCHANGED <<cfgVars, hist, outVars, dispVars, st, polls, sensorFrame, pkt,
                   wrVars, lveVars, proc, pcMain, lock, bmp>>

\* (mutant) the completeness predicate is evaluated and then ignored
render_complete_any ==
    /\ prog = "view_tigr" /\ proc = "running" /\ pcThr = "a_complete"
    /\ \E valid \in BOOLEAN :
          /\ it' = [it EXCEPT !.complete = valid]
          /\ pcThr' = "a_lock"
    /\ UNCHANGED <<cfgVars, hist, outVars, dispVars, st, polls, sensorFrame, pkt,
                   scan, nextCol, wrVars, lveVars, proc, pcMain, lock, bmp>>

\* if (scan.complete(info.format.column_window)): whether the sensor marked
\* every column of the window valid
render_complete ==
    /\ prog = "view_tigr" /\ proc = "running" /\ pcThr = "a_complete"
    /\ \E valid \in BOOLEAN :
          /\ it' = [it EXCEPT !.complete = valid]
          /\ pcThr' = IF valid THEN "a_lock" ELSE "a_imu"
    /\ UNCHANGED <<cfgVars, hist, outVars, dispVars, st, polls, sensorFrame, pkt,
                   scan, nextCol, wrVars, lveVars, proc, pcMain, lock, bmp>>

\* (mutant) the thread goes on to the frame write without the lock
render_lock_skip ==
    /\ prog = "view_tigr" /\ proc = "running" /\ pcThr = "a_lock"
    /\ it' = [it EXCEPT !.locked = TRUE]
    /\ pcThr' = "a_scan_to_bmp"
    /\ UNCHANGED <<cfgVars, hist, outVars, dispVars, st, polls, sensorFrame, pkt,
                   scan, nextCol, wrVars, lveVars, proc, pcMain, lock, bmp>>

\* pthread_mutex_lock(&app->lock)
render_lock ==
    /\ prog = "view_tigr" /\ proc = "running" /\ pcThr = "a_lock"
    /\ Acquire("thr")
    /\ it' = [it EXCEPT !.locked = TRUE]
    /\ pcThr' = "a_scan_to_bmp"
    /\ UNCHANGED <<cfgVars, hist, outVars, dispVars, st, polls, sensorFrame, pkt,
                   scan, nextCol, wrVars, lveVars, proc, pcMain, bmp>>

\* (mutant) normalization is skipped when max == min
scan_to_bmp_guarded ==
    /\ prog = "view_tigr" /\ proc = "running" /\ pcThr = "a_scan_to_bmp"
    /\ LET i == LoopIndex(k)
           v == IF Range(scan) = 0 THEN 0 ELSE Normalized(scan, i)
       IN  /\ bmp' = [bmp EXCEPT ![i] = Gray(v)]
           /\ it' = [it EXCEPT !.wrote = TRUE]
           /\ k' = IF k + 1 = N THEN 0 ELSE k + 1
           /\ pcThr' = IF k + 1 = N THEN "a_btn" ELSE pcThr
           /\ UNCHANGED <<cfgVars, hist, outVars, dispVars, st, polls,
                          sensorFrame, pkt, scan, nextCol, probe,
                          lveVars, proc, pcMain, lock>>

\* scan_to_bmp(scan, RANGE, app->bmp): one pixel of the second loop per
\* step.  A division without a defined result either traps (the process
\* dies by SIGFPE) or yields 0 (a target whose divide does not trap).
scan_to_bmp ==
    /\ prog = "view_tigr" /\ proc = "running" /\ pcThr = "a_scan_to_bmp"
    /\ LET i == LoopIndex(k)
           write(v) ==
               /\ bmp' = [bmp EXCEPT ![i] = Gray(v)]
               /\ it' = [it EXCEPT !.wrote = TRUE]
               /\ k' = IF k + 1 = N THEN 0 ELSE k + 1
               /\ pcThr' = IF k + 1 = N THEN "a_btn" ELSE pcThr
               /\ UNCHANGED <<cfgVars, hist, outVars, dispVars, st, polls,
                              sensorFrame, pkt, scan, nextCol, probe,
                              lveVars, proc, pcMain, lock>>
       IN  IF PixelUndefined(scan, i)
           THEN \/ Teardown("signal") /\ UNCHANGED <<keptVars, fatal>>
                \/ write(0)
           ELSE write(Normalized(scan, i))

\* if (app->mouse.btn)
render_btn ==
    /\ prog = "view_tigr" /\ proc = "running" /\ pcThr = "a_btn"
    /\ probe' = [btn |-> mouse.btn, x |-> 0, y |-> 0, read |-> FALSE]
    /\ pcThr' = IF mouse.btn # 0 THEN "a_print_range" ELSE "a_unlock"
    /\ UNCHANGED <<cfgVars, hist, outVars, dispVars, acqVars, k, lveVars, proc,
                   pcMain, lock, bmp>>

\* print_range(scan, RANGE, app->bmp, app->mouse.x, app->mouse.y)
render_print_range ==
    /\ prog = "view_tigr" /\ proc = "running" /\ pcThr = "a_print_range"
    /\ probe' = [probe EXCEPT !.x = mouse.x, !.y = mouse.y, !.read = TRUE]
    /\ bmp' = print_range(bmp, mouse.x, mouse.y)
    /\ pcThr' = "a_unlock"
    /\ UNCHANGED <<cfgVars, hist, outVars, dispVars, acqVars, k, lveVars, proc,
                   pcMain, lock>>

\* (mutant) the thread goes on without releasing the lock
render_unlock_keep ==
    /\ prog = "view_tigr" /\ proc = "running" /\ pcThr = "a_unlock"
    /\ probe' = NoProbe
    /\ pcThr' = "a_imu"
    /\ hist' = Record([hist EXCEPT !.write = bmp, !.fresh = TRUE])
    /\ UNCHANGED <<cfgVars, outVars, dispVars, acqVars, k, lveVars, proc,
                   pcMain, lock, bmp>>

\* pthread_mutex_unlock(&app->lock); p = cartesian(scan, lut)
render_unlock ==
    /\ prog = "view_tigr" /\ proc = "running" /\ pcThr = "a_unlock"
    /\ Release
    /\ probe' = NoProbe
    /\ pcThr' = "a_imu"
    /\ hist' = Record([hist EXCEPT !.write = bmp, !.fresh = TRUE])
    /\ UNCHANGED <<cfgVars, outVars, dispVars, acqVars, k, lveVars, proc,
                   pcMain, bmp>>

\* (mutant) a failed IMU read is fatal, like a failed lidar read
render_imu_fatal ==
    /\ prog = "view_tigr" /\ proc = "running" /\ pcThr = "a_imu"
    /\ IF "IMU_DATA" \in st
       THEN \E ok \in BOOLEAN :
              IF ok
              THEN /\ pkt' = ImuPacket
                   /\ it' = [it EXCEPT !.imu = @ + 1]
                   /\ pcThr' = "a_next"
                   /\ UNCHANGED <<cfgVars, hist, outVars, dispVars, st,
                                  polls, sensorFrame, scan, nextCol, wrVars,
                                  lveVars, proc, pcMain, lock, bmp>>
              ELSE /\ FATAL("Failed to read a packet of the expected size!")
                   /\ it' = [it EXCEPT !.imu = @ + 1]
                   /\ UNCHANGED <<usage, connected, closed, st, polls>>
       ELSE /\ pcThr' = "a_next"
            /\ UNCHANGED <<cfgVars, hist, outVars, dispVars, acqVars, wrVars,
                           lveVars, proc, pcMain, lock, bmp>>

\* if (st & IMU_DATA) read_imu_packet(...): the result is not looked at
render_imu ==
    /\ prog = "view_tigr" /\ proc = "running" /\ pcThr = "a_imu"
    /\ IF "IMU_DATA" \in st
       THEN /\ \E ok \in BOOLEAN : pkt' = IF ok THEN ImuPacket ELSE pkt
            /\ it' = [it EXCEPT !.imu = @ + 1]
       ELSE UNCHANGED <<pkt, it>>
    /\ pcThr' = "a_next"
    /\ UNCHANGED <<cfgVars, hist, outVars, dispVars, st, polls, sensorFrame, scan,
                   nextCol, wrVars, lveVars, proc, pcMain, lock, bmp>>

\* the end of the loop body: st goes out of scope and the packet buffer's
\* content is dead (the next read overwrites it); the next iteration starts
render_next ==
    /\ prog = "view_tigr" /\ proc = "running" /\ pcThr = "a_next"
    /\ st' = {}
    /\ it' = FreshIt
    /\ pkt' = NoPacket
    /\ pcThr' = "a_poll"
    /\ UNCHANGED <<cfgVars, hist, outVars, dispVars, polls, sensorFrame, scan,
                   nextCol, wrVars, lveVars, proc, pcMain, lock, bmp>>

-----------------------------------------------------------------------------
(* lidar_view_example: main *)

\* if (argc != 2 && argc != 3) { usage; return argc == 1 ? EXIT_SUCCESS : EXIT_FAILURE; }
lve_main_args ==
    /\ prog = "lidar_view_example" /\ proc = "running" /\ pcMain = "start"
    /\ IF argc # 2 /\ argc # 3
       THEN /\ usage' = TRUE
            /\ Teardown(IF argc = 1 THEN "exit_success" ELSE "exit_failure")
            /\ UNCHANGED <<fatal, connected, closed, st, polls, it>>
       ELSE /\ pcMain' = "l_connect"
            /\ UNCHANGED <<cfgVars, hist, outVars, dispVars, acqVars, wrVars,
                           lveVars, proc, pcThr, lock, bmp>>

\* handle = init_client(sensor_hostname, data_destination); if (!handle) FATAL(...)
lve_init_client ==
    /\ prog = "lidar_view_example" /\ proc = "running" /\ pcMain = "l_connect"
    /\ connected' = TRUE
    /\ \E handle \in BOOLEAN :
          IF ~handle
          THEN /\ FATAL("Failed to connect")
               /\ UNCHANGED <<usage, closed, st, polls, it>>
          ELSE /\ pcMain' = "l_setup"
               /\ UNCHANGED <<cfgVars, hist, usage, fatal, dispVars, acqVars,
                              wrVars, lveVars, proc, pcThr, lock, bmp>>

\* metadata, batcher, packet buffer, scan, lut, viz, cloud, image, colors
lve_setup ==
    /\ prog = "lidar_view_example" /\ proc = "running" /\ pcMain = "l_setup"
    /\ cloud' = InitScan
    /\ pcMain' = "l_create"
    /\ UNCHANGED <<cfgVars, hist, outVars, dispVars, acqVars, wrVars, viz, proc,
                   pcThr, lock, bmp>>

\* pthread_create(&ptid, NULL, &func, &thread_args)
lve_pthread_create ==
    /\ prog = "lidar_view_example" /\ proc = "running" /\ pcMain = "l_create"
    /\ pcThr' = "f_start"
    /\ pcMain' = "l_assign"
    /\ UNCHANGED <<cfgVars, hist, outVars, dispVars, acqVars, wrVars, lveVars,
                   proc, lock, bmp>>

\* thread_args.viz = &viz
lve_assign_viz ==
    /\ prog = "lidar_view_example" /\ proc = "running" /\ pcMain = "l_assign"
    /\ viz' = [viz EXCEPT !.ptr = "set"]
    /\ pcMain' = "l_poll"
    /\ UNCHANGED <<cfgVars, hist, outVars, dispVars, acqVars, wrVars, cloud, proc,
                   pcThr, lock, bmp>>

\* st = poll_client(*handle); if (st & CLIENT_ERROR) FATAL(...)
lve_poll ==
    /\ prog = "lidar_view_example" /\ proc = "running" /\ pcMain = "l_poll"
    /\ st' \in SUBSET Flags
    /\ polls' = IF polls = "none" THEN "one" ELSE "more"
    /\ IF "CLIENT_ERROR" \in st'
       THEN /\ FATAL("Sensor client returned error state!")
            /\ UNCHANGED <<usage, connected, closed, it>>
       ELSE /\ pcMain' = IF "LIDAR_DATA" \in st' THEN "l_read" ELSE "l_imu"
            /\ UNCHANGED <<cfgVars, hist, outVars, dispVars, it, sensorFrame, pkt,
                           scan, nextCol, wrVars, lveVars, proc, pcThr,
                           lock, bmp>>

\* if (!read_lidar_packet(...)) FATAL(...)
lve_read ==
    /\ prog = "lidar_view_example" /\ proc = "running" /\ pcMain = "l_read"
    /\ \E ok \in BOOLEAN :
          IF ~ok
          THEN /\ FATAL("Failed to read a packet of the expected size!")
               /\ it' = [it EXCEPT !.read = "failed"]
               /\ UNCHANGED <<usage, connected, closed, st, polls>>
          ELSE /\ sensorFrame' \in NextFrames
               /\ pkt' = [f |-> sensorFrame', m |-> nextCol]
               /\ it' = [it EXCEPT !.read = "ok"]
               /\ pcMain' = "l_batch"
               /\ UNCHANGED <<cfgVars, hist, outVars, dispVars, st, polls, scan,
                              nextCol, wrVars, lveVars, proc, pcThr, lock,
                              bmp>>

\* if (batch_to_scan(packet_buf.get(), scan))
lve_batch ==
    /\ prog = "lidar_view_example" /\ proc = "running" /\ pcMain = "l_batch"
    /\ scan' = Batched(scan, pkt)
    /\ nextCol' = IF BatchDone(pkt) THEN 0 ELSE pkt.m + 1
    /\ it' = [it EXCEPT !.batched = TRUE, !.done = BatchDone(pkt)]
    /\ pcMain' = IF BatchDone(pkt) THEN "l_complete" ELSE "l_imu"
    /\ UNCHANGED <<cfgVars, hist, outVars, dispVars, st, polls, sensorFrame, pkt,
                   wrVars, lveVars, proc, pcThr, lock, bmp>>

\* if (scan.complete(column_window)) { p = cartesian(scan, lut);
\*     cloud->set_xyz(p.data()); cloud->set_key(colors.data()); }
lve_complete ==
    /\ prog = "lidar_view_example" /\ proc = "running" /\ pcMain = "l_complete"
    /\ \E valid \in BOOLEAN :
          /\ it' = [it EXCEPT !.complete = valid, !.cloud = valid]
          /\ cloud' = IF valid THEN scan ELSE cloud
    /\ pcMain' = "l_imu"
    /\ UNCHANGED <<cfgVars, hist, outVars, dispVars, st, polls, sensorFrame, pkt,
                   scan, nextCol, wrVars, viz, proc, pcThr, lock, bmp>>

\* if (st & IMU_DATA) read_imu_packet(...): the result is not looked at
lve_imu ==
    /\ prog = "lidar_view_example" /\ proc = "running" /\ pcMain = "l_imu"
    /\ IF "IMU_DATA" \in st
       THEN /\ \E ok \in BOOLEAN : pkt' = IF ok THEN ImuPacket ELSE pkt
            /\ it' = [it EXCEPT !.imu = @ + 1]
       ELSE UNCHANGED <<pkt, it>>
    /\ pcMain' = "l_next"
    /\ UNCHANGED <<cfgVars, hist, outVars, dispVars, st, polls, sensorFrame, scan,
                   nextCol, wrVars, lveVars, proc, pcThr, lock, bmp>>

\* the end of the loop body
lve_next ==
    /\ prog = "lidar_view_example" /\ proc = "running" /\ pcMain = "l_next"
    /\ st' = {}
    /\ it' = FreshIt
    /\ pkt' = NoPacket
    /\ pcMain' = "l_poll"
    /\ UNCHANGED <<cfgVars, hist, outVars, dispVars, polls, sensorFrame, scan,
                   nextCol, wrVars, lveVars, proc, pcThr, lock, bmp>>

-----------------------------------------------------------------------------
(* lidar_view_example: func, the visualizer thread *)

\* what is left alone by a step of func
funcKept == <<cfgVars, hist, outVars, dispVars, acqVars, wrVars, cloud, proc,
              pcMain, lock, bmp>>

\* a use of a->viz while thread_args.viz is still unassigned: the pointer
\* is an indeterminate value, and calling through it is undefined.  The
\* process dies by a signal, or the call lands in memory the model does not
\* track and the thread goes on to pc
WildUse(pc) ==
    \/ Teardown("signal") /\ UNCHANGED <<keptVars, fatal>>
    \/ pcThr' \in pc /\ UNCHANGED <<viz, funcKept>>

\* a->viz->running(true); a->viz->visible(true)
func_start ==
    /\ prog = "lidar_view_example" /\ proc = "running" /\ pcThr = "f_start"
    /\ IF viz.ptr = "unset"
       THEN WildUse({"f_loop"})
       ELSE /\ viz' = [viz EXCEPT !.running = TRUE, !.visible = TRUE]
            /\ pcThr' = "f_loop"
            /\ UNCHANGED funcKept

\* a->viz->update(); a->viz->run_once(); if (a->viz->running() == false) break;
\* run_once handles the window's events, which can clear the running flag
func_loop ==
    /\ prog = "lidar_view_example" /\ proc = "running" /\ pcThr = "f_loop"
    /\ IF viz.ptr = "unset"
       THEN WildUse({"f_loop", "f_end"})
       ELSE /\ \E r \in BOOLEAN :
                  /\ viz' = [viz EXCEPT !.running = r]
                  /\ pcThr' = IF r THEN "f_loop" ELSE "f_end"
            /\ UNCHANGED funcKept

\* a->viz->visible(false); pthread_detach(pthread_self()); pthread_exit(NULL)
func_exit ==
    /\ prog = "lidar_view_example" /\ proc = "running" /\ pcThr = "f_end"
    /\ IF viz.ptr = "unset"
       THEN WildUse({"f_exited"})
       ELSE /\ viz' = [viz EXCEPT !.visible = FALSE]
            /\ pcThr' = "f_exited"
            /\ UNCHANGED funcKept

-----------------------------------------------------------------------------
(* The programs *)

VtMain ==
    \/ main_app \/ init \/ main_tigrBitmap \/ main_pthread_create
    \/ main_tigrClosed \/ main_tigrReadChar \/ main_tigr_mouse_get
    \/ main_tigrClear \/ main_lock \/ main_tigrBlit \/ main_unlock
    \/ main_tigrUpdate \/ main_return

VtThread ==
    \/ render_init \/ render_poll \/ render_read \/ render_batch
    \/ render_complete \/ render_lock \/ scan_to_bmp \/ render_btn
    \/ render_print_range \/ render_unlock \/ render_imu \/ render_next

LveMain ==
    \/ lve_main_args \/ lve_init_client \/ lve_setup \/ lve_pthread_create
    \/ lve_assign_viz \/ lve_poll \/ lve_read \/ lve_batch \/ lve_complete
    \/ lve_imu \/ lve_next

LveThread == func_start \/ func_loop \/ func_exit

Next == VtMain \/ VtThread \/ LveMain \/ LveThread

Spec == Init /\ [][Next]_vars

\* both threads of a process are scheduled by the operating system: neither
\* is starved while it can take a step
FairSpec == Spec /\ WF_vars(VtMain \/ LveMain) /\ WF_vars(VtThread \/ LveThread)

-----------------------------------------------------------------------------
(* scan_to_bmp over arbitrary channel data: the frame-write section of     *)
(* render_thread, entered with a completed scan of any 32-bit values       *)

\* uint32_t channel values: small ranges, and values with the top bit set
\* (0xFFFFFC18, 0xFFFFFFFF)
ChanValues == {<<0, 0>>, <<0, 500>>, <<0, 1000>>, <<Limb - 1, Limb - 1000>>,
               <<Limb - 1, Limb - 1>>}

\* completed scans: the two corner pixels and the rest
PixScans ==
    {[i \in Pix |-> IF i = 0 THEN a ELSE IF i = N - 1 THEN b ELSE c] :
        a \in ChanValues, b \in ChanValues, c \in ChanValues}

\* render_thread has just taken the lock for a completed scan; main waits
\* at its own pthread_mutex_lock
InitPix ==
    /\ prog = "view_tigr"
    /\ argc \in 2 .. MaxArgc
    /\ proc = "running"
    /\ usage = FALSE
    /\ fatal = ""
    /\ connected = TRUE
    /\ pcMain = "m_lock"
    /\ pcThr = "a_scan_to_bmp"
    /\ lock = "thr"
    /\ closed = FALSE
    /\ mouse \in MouseSamples
    /\ bmp = InitBmp
    /\ surface = [i \in Pix |-> Background]
    /\ st = {"LIDAR_DATA"}
    /\ polls = "more"
    /\ it = [FreshIt EXCEPT !.read = "ok", !.batched = TRUE, !.done = TRUE,
                            !.complete = TRUE, !.locked = TRUE]
    /\ sensorFrame = "none"
    /\ pkt = NoPacket
    /\ scan \in PixScans
    /\ nextCol = 0
    /\ k = 0
    /\ probe = NoProbe
    /\ cloud = << >>
    /\ viz = [ptr |-> "unset", running |-> FALSE, visible |-> FALSE]
    /\ hist = NoHist

PixNext == scan_to_bmp \/ render_btn \/ render_print_range \/ render_unlock

SpecPix == InitPix /\ [][PixNext]_vars

-----------------------------------------------------------------------------
(* view_tigr with the history of the frame buffer recorded *)

InitHist ==
    /\ prog = "view_tigr"
    /\ argc \in 1 .. MaxArgc
    /\ proc = "running"
    /\ usage = FALSE
    /\ fatal = ""
    /\ connected = FALSE
    /\ pcMain = "start"
    /\ pcThr = "none"
    /\ lock = "none"
    /\ closed = FALSE
    /\ mouse = [btn |-> 0, x |-> 0, y |-> 0]
    /\ bmp = << >>
    /\ surface = << >>
    /\ st = {}
    /\ polls = "none"
    /\ it = FreshIt
    /\ sensorFrame = "none"
    /\ pkt = NoPacket
    /\ scan = InitScan
    /\ nextCol = 0
    /\ k = 0
    /\ probe = NoProbe
    /\ cloud = << >>
    /\ viz = [ptr |-> "unset", running |-> FALSE, visible |-> FALSE]
    /\ hist = NewHist

HistNext == VtMain \/ VtThread

HistSpec == InitHist /\ [][HistNext]_vars

-----------------------------------------------------------------------------
(* view_tigr under fair scheduling, with a sensor that sends the rising    *)
(* frame and a mouse that is up, or down at the bottom right pixel         *)

InitLock == Init /\ prog = "view_tigr" /\ argc >= 2

LockEnv ==
    /\ sensorFrame \in {"none", "ramp"}
    /\ mouse \in {[btn |-> 0, x |-> 0, y |-> 0],
                  [btn |-> 1, x |-> W - 1, y |-> H - 1]}

LockNext == (VtMain \/ VtThread) /\ LockEnv'

\* both threads keep running while they can take a step, and a thread that
\* finds the lock free again and again gets it
LockSpec ==
    /\ InitLock /\ [][LockNext]_vars
    /\ WF_vars(VtMain) /\ WF_vars(VtThread)
    /\ SF_vars(main_lock) /\ SF_vars(render_lock)

-----------------------------------------------------------------------------
(* Properties *)

\* least and greatest channel value of a scan in uint32_t order
UMin(s) == CHOOSE u \in {s[i] : i \in Pix} :
               \A i \in Pix : ~LtU(s[i], u)
UMax(s) == CHOOSE u \in {s[i] : i \in Pix} :
               \A i \in Pix : ~LtU(u, s[i])

\* C2: when scan_to_bmp has finished on a completed scan whose unsigned
\* channel values have max > min, every pixel holds a gray intensity in
\* 0..255, each pixel with the minimum value holds 0 and each pixel with
\* the maximum value holds 255.
C2_NormalizedToByteRange ==
    (pcThr = "a_btn" /\ LtU(UMin(scan), UMax(scan))) =>
        \A i \in Pix :
            /\ bmp[i].r \in 0 .. 255
            /\ bmp[i] = Gray(bmp[i].r)
            /\ (scan[i] = UMin(scan) => bmp[i].r = 0)
            /\ (scan[i] = UMax(scan) => bmp[i].r = 255)

\* main is between its pthread_mutex_lock and pthread_mutex_unlock
MainInBlit == pcMain \in {"m_blit", "m_unlock"}
\* render_thread is between its pthread_mutex_lock and pthread_mutex_unlock
ThrInWrite == pcThr \in {"a_scan_to_bmp", "a_btn", "a_print_range", "a_unlock"}

\* C1: the display loop's blit and the acquisition thread's frame write are
\* never in progress together; each happens only with the lock held by the
\* thread doing it, and no blit starts on a buffer whose write is midway.
C1_BlitWriteExclusive ==
    /\ ~(MainInBlit /\ ThrInWrite)
    /\ (MainInBlit => lock = "main")
    /\ (ThrInWrite => lock = "thr")
    /\ (pcMain = "m_blit" => k = 0)

\* C1 witness: the buffer is partly written while the display loop waits
\* for the lock
C1_Witness == pcThr = "a_scan_to_bmp" /\ k > 0 /\ pcMain = "m_lock"

\* C3: a poll status with the error bit set (with or without the data bits)
\* ends the process with a failure status; that iteration has read no
\* packet, not called the batcher, not taken the lock and not written the
\* buffer; when it was the first poll the buffer was never written.
C3_SensorErrorIsFatal ==
    (prog = "view_tigr" /\ "CLIENT_ERROR" \in st) =>
        /\ proc = "exit_failure"
        /\ fatal = "Sensor client returned error state!"
        /\ it.read = "no" /\ ~it.batched /\ ~it.locked /\ ~it.wrote
        /\ it.imu = 0
        /\ lock # "thr"
        /\ (polls = "one" => bmp = InitBmp)
        /\ ~ENABLED Next

\* C3 witness: the first poll reports error together with both data bits
C3_Witness ==
    /\ prog = "view_tigr" /\ proc = "exit_failure" /\ polls = "one"
    /\ st = {"CLIENT_ERROR", "LIDAR_DATA", "IMU_DATA"}

\* C4: in both examples a failed lidar packet read ends the process at once
\* with a failure status: the batcher is not called, no frame is written and
\* no cloud updated, and nothing runs afterwards (no retry).
C4_FailedReadIsFatal ==
    (it.read = "failed") =>
        /\ proc = "exit_failure"
        /\ fatal = "Failed to read a packet of the expected size!"
        /\ "LIDAR_DATA" \in st
        /\ ~it.batched /\ ~it.done /\ ~it.complete
        /\ ~it.locked /\ ~it.wrote /\ ~it.cloud /\ it.imu = 0
        /\ ~ENABLED Next

\* C4 witness: lidar_view_example ended by a failed read after an earlier
\* iteration
C4_Witness ==
    /\ prog = "lidar_view_example" /\ it.read = "failed" /\ polls = "more"
    /\ proc = "exit_failure"

\* what scan_to_bmp leaves in the bitmap for scan s when it runs to its end
Rendered(s) ==
    [i \in Pix |-> Gray(IF PixelUndefined(s, i) THEN 0 ELSE Normalized(s, i))]

\* the values of the shared mouse state render_thread has read ask for a
\* highlight inside the bitmap
ProbeHits == probe.btn # 0 /\ probe.read /\ InBounds(probe.x, probe.y)

\* C5: when the acquisition thread is about to release the lock after a
\* frame write, then if the button flag it read was down and the cursor it
\* read is inside the bitmap, the pixel at the cursor is the highlight
\* colour and every other pixel is the normalized gray; otherwise (button
\* up, or cursor out of bounds) the buffer is exactly the normalized frame.
C5_ProbeOverlay ==
    (pcThr = "a_unlock") =>
        /\ it.wrote
        /\ (probe.btn # 0 => probe.read)
        /\ IF ProbeHits
           THEN bmp = [Rendered(scan) EXCEPT ![Index(probe.x, probe.y)] = Red]
           ELSE bmp = Rendered(scan)

\* C5 witness: a highlight written inside a frame with distinct grays
C5_Witness ==
    /\ pcThr = "a_unlock" /\ ProbeHits
    /\ bmp[Index(probe.x, probe.y)] = Red
    /\ Rendered(scan)[Index(probe.x, probe.y)] = Gray(255)
    /\ bmp[0] = Gray(0)

\* the bitmaps a frame write can leave for a scan made of one sensor frame
FrameBitmaps(f) ==
    {Rendered(Frame(f))}
    \cup {[Rendered(Frame(f)) EXCEPT ![i] = Red] : i \in Pix}
\* the buffer as created, and every bitmap of a complete scan
CompleteFrames == {InitBmp} \cup UNION {FrameBitmaps(f) : f \in FrameIds}
\* the scan holds columns of more than one frame: accumulation is midway
ScanMidway == nextCol > 0 /\ \A f \in FrameIds : scan # Frame(f)

\* C6: whenever the display loop blits, the frame buffer holds the blank
\* initial bitmap or the rendering of a scan the batcher reported complete
\* (with at most the highlight pixel); a scan in accumulation is never what
\* the blit copies, and the copy on the window surface is one of these too.
C6_BlitOnlyCompleteFrames ==
    /\ (pcMain = "m_blit" => bmp \in CompleteFrames)
    /\ (pcMain = "m_unlock" => surface \in CompleteFrames)

\* C6 witness: a blit while the next scan is midway in accumulation, showing
\* the previous complete frame
C6_Witness ==
    /\ pcMain = "m_unlock" /\ ScanMidway
    /\ surface = bmp /\ bmp # InitBmp

\* C6 as stated: an execution that keeps writing frames and keeps blitting
\* comes to blit a frame whose contents reflect a scan the batcher has not
\* yet reported complete
C6_BlitsMidwayFrame ==
    ([]<>(pcThr = "a_unlock") /\ []<>(pcMain = "m_blit" /\ ScanMidway)) =>
        <>(pcMain = "m_blit" /\ bmp \notin CompleteFrames)

\* the conditions of a frame-writing iteration
WritingIteration(i, s) ==
    "LIDAR_DATA" \in s /\ i.read = "ok" /\ i.batched /\ i.done /\ i.complete

\* C7: the acquisition thread takes the lock and changes the frame buffer
\* only in an iteration whose poll reported lidar data, whose read
\* succeeded, whose batcher call reported completion and whose completeness
\* predicate held; an iteration lacking any of these ends with the buffer
\* and the lock untouched.
C7_WriteOnlyOnCompleteScan ==
    [][(prog = "view_tigr") =>
        /\ (bmp' # bmp /\ bmp # << >>) =>
               /\ WritingIteration(it, st) /\ lock = "thr"
               /\ pcThr \in {"a_scan_to_bmp", "a_print_range"}
        /\ (lock' = "thr" /\ lock # "thr") => WritingIteration(it', st')
        /\ (pcThr # "a_next" /\ pcThr' = "a_next"
                /\ ~WritingIteration(it, st)) =>
               /\ ~it.locked /\ ~it.wrote /\ bmp' = bmp
               /\ lock # "thr" /\ lock' # "thr"]_vars

\* C7 witness: an iteration with lidar data and a finished batch whose
\* completeness predicate was false reaches its end
C7_Witness ==
    /\ pcThr = "a_next" /\ it.done /\ ~it.complete /\ ~it.wrote
    /\ bmp # InitBmp

\* C8: the acquisition thread is at a read of the shared mouse state, or
\* holds values read from it, only while it holds the buffer lock.
C8_MouseReadUnderLock ==
    (pcThr \in {"a_btn", "a_print_range"} \/ probe # NoProbe) =>
        lock = "thr" /\ it.locked

\* C8 witness: the thread reads the cursor while main is about to store a
\* new mouse state
C8_Witness ==
    /\ pcThr = "a_print_range" /\ probe.btn # 0 /\ pcMain = "m_mouse"
    /\ lock = "thr"

\* C9: a run started without the sensor hostname ends having printed usage
\* and without a connection attempt, with status zero when no argument was
\* given and, in lidar_view_example, non-zero for any other wrong count.
C9_UsageOnMissingArgument ==
    /\ (argc = 1 /\ proc # "running") =>
           usage /\ ~connected /\ proc = "exit_success"
    /\ (prog = "lidar_view_example" /\ argc > 3 /\ proc # "running") =>
           usage /\ ~connected /\ proc = "exit_failure"

\* C10: once the close flag is set the display loop is at its loop head or
\* past it and never enters the loop body again; past the loop head its
\* exit is enabled whatever the acquisition thread is doing and main does
\* not hold the lock; a success status is reached only through the close
\* flag, and a closed run ends with success unless the acquisition thread
\* ended the process first (fatal error, or a fault in its division).
C10_CloseEndsDisplayLoop ==
    (prog = "view_tigr") =>
        /\ (closed /\ proc = "running") => pcMain \in {"m_closed", "m_free"}
        /\ (pcMain \in {"m_closed", "m_free"}) => lock # "main"
        /\ (pcMain = "m_free") => closed /\ ENABLED main_return
        /\ (proc = "exit_success") => closed /\ lock # "main"
        /\ (closed /\ proc \notin {"running", "exit_success"}) =>
               \/ /\ proc = "exit_failure"
                  /\ fatal \in {"Sensor client returned error state!",
                                "Failed to read a packet of the expected size!"}
               \/ proc = "signal" /\ it.locked /\ lock = "thr"

\* C10 witness: main is past the loop head after a close while the thread
\* is partway through a frame write with the lock held
C10_Witness ==
    /\ closed /\ pcMain = "m_free" /\ proc = "running"
    /\ pcThr = "a_scan_to_bmp" /\ k > 0 /\ lock = "thr"

\* C10 as stated: every closed run ends with a success status
C10_CloseAlwaysSucceeds ==
    (prog = "view_tigr" /\ closed /\ proc # "running") =>
        proc = "exit_success"

\* every channel value of the scan is the same
ScanFlat(s) == \A i \in Pix : s[i] = s[0]

\* the step of scan_to_bmp whose division ends the process
DivideFault == scan_to_bmp /\ proc' = "signal"

\* C11: whenever scan_to_bmp is at a pixel of a completed scan whose values
\* are all equal, its divisor max - min is 0 and the division has no defined
\* result: the faulting step is enabled (no guard skips it) and the thread
\* holds the lock; a run that got past its arguments dies by a signal only
\* there, inside the critical section.
C11_DivideByZeroUnderLock ==
    (prog = "view_tigr") =>
        /\ (pcThr = "a_scan_to_bmp" /\ ScanFlat(scan)) =>
               /\ lock = "thr" /\ it.complete
               /\ Range(scan) = 0
               /\ PixelUndefined(scan, LoopIndex(k))
               /\ ENABLED DivideFault
        /\ (proc = "signal" /\ argc >= 2) =>
               lock = "thr" /\ it.locked /\ it.complete

\* C11 witness: the process died in the division, with the lock held
C11_Witness ==
    /\ prog = "view_tigr" /\ proc = "signal" /\ argc >= 2
    /\ lock = "thr" /\ it.locked /\ ~it.wrote

\* C12: the buffer a blit is about to copy is the bitmap the most recent
\* completed frame write left (the blank bitmap when none completed yet),
\* the blit puts exactly that bitmap on the surface, and when no frame write
\* completed since the previous blit the buffer still is what that blit
\* copied.
C12_LastWriteWins ==
    /\ (pcMain = "m_blit") =>
           /\ bmp = hist.write
           /\ (~hist.fresh /\ hist.blit # << >>) => bmp = hist.blit
    /\ (pcMain = "m_unlock") =>
           surface = hist.write /\ hist.blit = hist.write /\ ~hist.fresh

\* C12 witness: the display loop is about to blit a written frame a second
\* time, no frame write having completed since it blitted it
C12_Witness ==
    /\ pcMain = "m_blit" /\ ~hist.fresh
    /\ hist.blit # << >> /\ hist.blit # InitBmp
    /\ bmp = hist.blit /\ ScanMidway

\* positions at a blocking call: the sensor poll and the packet reads of
\* render_thread, the event processing of main
ThrBlocking == pcThr \in {"a_poll", "a_read", "a_imu"}
MainBlocking == pcMain \in {"m_update", "m_readchar", "m_mouse"}

\* neither thread holds the lock at a blocking call; main takes it after
\* the clear and has released it at tigrUpdate and at the loop head
NoBlockingUnderLock ==
    /\ (lock = "thr" /\ proc = "running") => ThrInWrite /\ ~ThrBlocking
    /\ (lock = "main" /\ proc = "running") => MainInBlit /\ ~MainBlocking
    /\ ThrBlocking => lock # "thr"
    /\ (MainBlocking \/ pcMain \in {"m_closed", "m_clear", "m_lock"}) =>
           lock # "main"

AtImu ==
    \/ prog = "view_tigr" /\ pcThr = "a_imu"
    \/ prog = "lidar_view_example" /\ pcMain = "l_imu"
AtLoopEnd ==
    \/ prog = "view_tigr" /\ pcThr = "a_next"
    \/ prog = "lidar_view_example" /\ pcMain = "l_next"

\* C14: the step over the IMU test reads one IMU packet exactly when the
\* poll reported imu-data, and leaves the frame buffer, the cloud, the scan
\* and the lock as they were; no step taken at the IMU test ends the
\* process through FATAL (a failed IMU read is not fatal).  After a poll
\* reporting only imu-data the iteration has read no lidar packet, not
\* called the batcher, not taken the lock and written nothing; when
\* lidar-data was reported too, the lidar packet was read and batched
\* before the IMU test.
C14_ImuReadAndDiscarded ==
    [][/\ (AtImu /\ AtLoopEnd') =>
              /\ proc' = "running"
              /\ it'.imu = (IF "IMU_DATA" \in st THEN 1 ELSE 0)
              /\ it.imu = 0
              /\ bmp' = bmp /\ cloud' = cloud /\ scan' = scan
              /\ lock' = lock /\ nextCol' = nextCol
              /\ ("LIDAR_DATA" \in st) => it.read = "ok" /\ it.batched
              /\ (st = {"IMU_DATA"}) =>
                     /\ it'.read = "no" /\ ~it'.batched /\ ~it'.locked
                     /\ ~it'.wrote /\ ~it'.cloud
       /\ (AtImu /\ proc = "running" /\ proc' # "running") =>
              fatal' = "" /\ proc' \in {"exit_success", "signal"}]_vars

\* C14 witness: view_tigr finished an iteration whose poll reported only
\* imu-data, between two packets of a frame, with a frame on display
C14_Witness ==
    /\ prog = "view_tigr" /\ pcThr = "a_next" /\ st = {"IMU_DATA"}
    /\ it.imu = 1 /\ it.read = "no" /\ nextCol > 0 /\ bmp # InitBmp

\* how far main of view_tigr has come: arguments, connection, window and
\* buffer, thread creation, display loop, end
Stage(pc) ==
    CASE pc = "start" -> 0
      [] pc = "init" -> 1
      [] pc = "window" -> 2
      [] pc = "create" -> 3
      [] pc = "exited" -> 5
      [] OTHER -> 4

\* C15: main of view_tigr goes through connection, buffer allocation,
\* thread creation and display loop in this order, one after the other and
\* never back; the buffer comes into being once, in the allocation step,
\* after the connection and before the thread exists, and keeps its
\* dimensions; the thread is created after it; a failed connection ends
\* the process with failure while no window, buffer or thread exists.
C15_StartupOrder ==
    [][(prog = "view_tigr") =>
        /\ Stage(pcMain') >= Stage(pcMain)
        /\ (pcMain' # "exited") => Stage(pcMain') <= Stage(pcMain) + 1
        /\ (bmp = << >> /\ bmp' # << >>) =>
               /\ pcMain = "window" /\ pcMain' = "create"
               /\ connected /\ pcThr = "none" /\ bmp' = InitBmp
        /\ (bmp # << >>) => DOMAIN bmp' = Pix
        /\ (pcThr = "none" /\ pcThr' # "none" /\ proc' = "running") =>
               pcMain = "create" /\ bmp # << >> /\ connected
        /\ (Stage(pcMain) < 4 /\ Stage(pcMain') = 4) => pcThr' = "a_init"
        /\ (pcThr' \notin {"none", "exited"}) => bmp' # << >>
        /\ (fatal = "" /\ fatal' = "Failed to connect") =>
               /\ proc' = "exit_failure"
               /\ bmp = << >> /\ surface = << >> /\ pcThr = "none"]_vars

\* C15 witness: the thread has just been created and main is at the head
\* of the display loop, the buffer allocated and still blank
C15_Witness ==
    /\ prog = "view_tigr" /\ pcMain = "m_closed" /\ pcThr = "a_init"
    /\ bmp = InitBmp /\ connected /\ proc = "running"

\* the three values of the shared mouse state one probe overlay has used
ProbeSample == [btn |-> probe.btn, x |-> probe.x, y |-> probe.y]

\* C16: main is never at its store of the mouse state while the thread is
\* inside its critical section at or between its reads of it, and the
\* button flag, x and y one overlay has used are one sample main stored.
C16_MouseSampleNotTorn ==
    /\ ~(pcMain = "m_mouse" /\ pcThr \in {"a_btn", "a_print_range"})
    /\ (pcThr = "a_unlock" /\ probe.read) => ProbeSample \in MouseSamples

\* C17: in lidar_view_example the thread's first use of a->viz never
\* finds the pointer unassigned: the process never dies in that use, and a
\* thread past it has found the pointer assigned.
C17_VizAssignedBeforeUse ==
    (prog = "lidar_view_example") =>
        /\ proc # "signal"
        /\ (pcThr \in {"f_loop", "f_end", "f_exited"}) => viz.ptr = "set"

\* C18: a run of lidar_view_example whose connection succeeded ends only
\* through FATAL, with a failure status and one of the two messages of the
\* acquisition loop; when the visualizer thread has exited, the process
\* still runs and main is in its acquisition loop.
C18_EndsOnlyByFatalError ==
    (prog = "lidar_view_example") =>
        /\ (connected /\ proc # "running" /\ fatal # "Failed to connect") =>
               /\ proc = "exit_failure"
               /\ fatal \in {"Sensor client returned error state!",
                             "Failed to read a packet of the expected size!"}
        /\ (pcThr = "f_exited") =>
               /\ proc = "running" /\ ~viz.visible
               /\ pcMain \in {"l_assign", "l_poll", "l_read", "l_batch",
                              "l_complete", "l_imu", "l_next"}

====
